---- MODULE Spec2Model ----
(***************************************************************************)
(* Model of adcircpy/forcing/tides/tpxo.py: the TPXO tidal atlas lookup.   *)
(* The state is the process environment (TPXO_NCFILE, the files on disk),  *)
(* the arguments handed to the constructor and to the two queries, the     *)
(* TPXO object, and the outcome and locals of the last operation run.      *)
(* Coordinates are integer degrees; arrays are 1-based sequences, and the  *)
(* 0-based numpy indices of the source are kept where they are computed.   *)
(***************************************************************************)
EXTENDS Integers, Sequences, FiniteSets

VARIABLES
    environ,                \* value of os.environ['TPXO_NCFILE'], or None
    files,                  \* the paths at which a dataset file exists
    tpxo_dataset_filename,  \* the argument of TPXO.__init__
    constituent,            \* the constituent argument of the queries
    vertices,               \* the vertices argument of the queries
    scipy,                  \* behaviour of the installed interpolation library
    self,                   \* the TPXO object (NoObject before construction)
    op,                     \* the operation run last
    result,                 \* what that operation returned or raised
    frame                   \* locals _x, _y, _idx of the last _get_interpolation

vars == <<environ, files, tpxo_dataset_filename, constituent, vertices, scipy,
          self, op, result, frame>>

(***************************************************************************)
(* Bounds and inputs.                                                      *)
(***************************************************************************)
MaxPoints == 3      \* query points per call

None == "None"

\* A float of a returned array: <<v>> for the number v, <<>> for nan.
Num(v) == <<v>>
NaN == <<>>

\* Path(appdirs.user_data_dir('tpxo')) / 'h_tpxo9.v1.nc'
DEFAULT_PATH == "~/.local/share/tpxo/h_tpxo9.v1.nc"
CONSTITUENTS == <<"M2", "S2", "N2", "K2", "K1", "O1", "P1", "Q1", "Mm", "Mf",
                  "M4", "MN4", "MS4", "2N2", "S1">>

\* Paths a caller or the environment may name, besides DEFAULT_PATH.
Paths == {"/data/a.nc", "/data/b.nc"}
AllPaths == Paths \cup {DEFAULT_PATH}

\* Constituent names tried: the first and the last catalog entry, a name
\* outside the catalog and a catalog name in the wrong case.
ConstituentInputs == {"M2", "S1", "XX", "m2"}

\* Query points tried: a node at a negative longitude, the same node at its
\* longitude + 360, a point off the nodes and midway between two longitudes
\* of the grid, and a point far off the grid.
PointInputs == {<<-150, 0>>, <<210, 0>>, <<-45, 13>>, <<-150, 500>>}

\* A vertices array that is not M x 2.
Malformed == << <<10, 0, 5>> >>

VertexInputs ==
    (UNION {[1..n -> PointInputs] : n \in 1..MaxPoints}) \cup {Malformed}

\* What the installed scipy does where griddata's documentation fixes nothing:
\* an empty set of data points raises IndexError (scipy < 1.12) or yields nan,
\* and equidistant data points are told apart by the k-d tree's own order.
ScipyBuilds == {[empty |-> "IndexError", tie |-> "first"],
                [empty |-> "nan", tie |-> "last"]}

(***************************************************************************)
(* The dataset store: what netCDF4 reads from the file at a path.          *)
(***************************************************************************)
FileId(path) ==
    IF path = "/data/a.nc" THEN 1 ELSE IF path = "/data/b.nc" THEN 2 ELSE 3

\* A synthetic atlas: lon_z 0..330 every 30 degrees, lat_z -30..30 every 10
\* degrees, and ha, hp indexed [constituent][lon][lat] with a distinct value
\* per file, constituent and node.
lon_z == <<0, 30, 60, 90, 120, 150, 180, 210, 240, 270, 300, 330>>
lat_z == <<-30, -20, -10, 0, 10, 20, 30>>

\* dataset['ha'][:] and dataset['hp'][:] of the file at a path.
file_ha(path) ==
    [c \in 1..Len(CONSTITUENTS) |-> [i \in 1..Len(lon_z) |->
        [j \in 1..Len(lat_z) |->
            FileId(path) * 100000 + ((c - 1) * 100 + i) * 10 + j]]]

file_hp(path) ==
    [c \in 1..Len(CONSTITUENTS) |-> [i \in 1..Len(lon_z) |->
        [j \in 1..Len(lat_z) |->
            0 - (FileId(path) * 100000 + ((c - 1) * 100 + i) * 10 + j)]]]

(***************************************************************************)
(* Outcomes of an operation.                                               *)
(***************************************************************************)
NoResult == [kind |-> "none", type |-> None, site |-> None, msg |-> None,
             values |-> <<>>]
Return(values) == [kind |-> "return", type |-> None, site |-> None,
                   msg |-> None, values |-> values]
Raise(type, site, msg) == [kind |-> "raise", type |-> type, site |-> site,
                           msg |-> msg, values |-> <<>>]

\* A TPXO object: its path, its dataset handle and the class attribute
\* CONSTITUENTS it reads through self.
NoObject == [path |-> None, dataset |-> None, CONSTITUENTS |-> CONSTITUENTS]
\* The locals of _get_interpolation and the statement it got to.
NoFrame == [at |-> "none", x_ |-> <<>>, y_ |-> <<>>, idx_ |-> <<>>]

(***************************************************************************)
(* TidalDataset (adcircpy/forcing/tides/dataset.py).                       *)
(***************************************************************************)
\* TidalDataset.__init__: keeps the path it is given.
TidalDataset_init(path) == path

\* TidalDataset._assert_vertices: vertices must be of shape M x 2.
assert_vertices(vertices_) == \A i \in 1..Len(vertices_) : Len(vertices_[i]) = 2

(***************************************************************************)
(* TPXO.__init__                                                           *)
(***************************************************************************)
\* netCDF4.Dataset(path): opens the file, or raises FileNotFoundError
\* (errno 2) naming the path.
Dataset(path, fs) ==
    IF path \in fs
    THEN [ok |-> TRUE, handle |-> path, error |-> NoResult]
    ELSE [ok |-> FALSE, handle |-> None,
          error |-> Raise("FileNotFoundError", "netCDF4.Dataset", path)]

\* TPXO_init with the dataset opened at the first query, not here.
TPXO_init_lazy(filename_arg, getenv, fs) ==
    LET filename == IF filename_arg = None
                    THEN IF getenv # None THEN getenv ELSE DEFAULT_PATH
                    ELSE filename_arg
        path == TidalDataset_init(filename)
    IN  [self |-> [path |-> path, dataset |-> path,
                   CONSTITUENTS |-> CONSTITUENTS],
         result |-> Return(<<>>)]

\* TPXO_init with the environment variable taking precedence over the
\* argument.
TPXO_init_env_first(filename_arg, getenv, fs) ==
    LET filename == IF getenv # None THEN getenv
                    ELSE IF filename_arg # None THEN filename_arg
                    ELSE DEFAULT_PATH
        path == TidalDataset_init(filename)
        opened == Dataset(path, fs)
    IN  IF opened.ok
        THEN [self |-> [path |-> path, dataset |-> opened.handle,
                        CONSTITUENTS |-> CONSTITUENTS],
              result |-> Return(<<>>)]
        ELSE [self |-> NoObject, result |-> opened.error]

TPXO_init(filename_arg, getenv, fs) ==
    LET filename == IF filename_arg = None
                    THEN IF getenv # None THEN getenv ELSE DEFAULT_PATH
                    ELSE filename_arg
        path == TidalDataset_init(filename)
        opened == Dataset(path, fs)
    IN  IF path # None
        THEN IF opened.ok
             THEN [self |-> [path |-> path, dataset |-> opened.handle,
                             CONSTITUENTS |-> CONSTITUENTS],
                   result |-> Return(<<>>)]
             ELSE [self |-> NoObject, result |-> opened.error]
        ELSE [self |-> NoObject,
              result |-> Raise("FileNotFoundError", "TPXO.__init__", path)]

(***************************************************************************)
(* numpy helpers, computed on sequences of integers.                       *)
(***************************************************************************)
RECURSIVE np_sum(_)
np_sum(a) == IF a = <<>> THEN 0 ELSE a[1] + np_sum(Tail(a))

np_diff(a) == [i \in 1..(Len(a) - 1) |-> a[i + 1] - a[i]]

np_min(a) == CHOOSE m \in {a[i] : i \in 1..Len(a)} :
                 \A i \in 1..Len(a) : m <= a[i]

np_max(a) == CHOOSE m \in {a[i] : i \in 1..Len(a)} :
                 \A i \in 1..Len(a) : m >= a[i]

\* np.mean(np.diff(a)) as the fraction num / den, so that no rounding enters.
mean_diff(a) == [num |-> np_sum(np_diff(a)), den |-> Len(np_diff(a))]

\* np.meshgrid(x, y, indexing='ij') flattened: x varies slowest. Flat
\* position k (1-based) is node (i, j) = ((k-1) \div ny + 1, (k-1) % ny + 1).
flat_x(x, y) ==
    <<>> \o [k \in 1..(Len(x) * Len(y)) |-> x[((k - 1) \div Len(y)) + 1]]
flat_y(x, y) ==
    <<>> \o [k \in 1..(Len(x) * Len(y)) |-> y[((k - 1) % Len(y)) + 1]]

\* tpxo_array[constituent, :, :].flatten() for the 0-based index c0.
flatten(tpxo_array, c0) ==
    LET slice == tpxo_array[c0 + 1]
        ny == Len(slice[1])
    IN  [k \in 1..(Len(slice) * ny) |->
            slice[((k - 1) \div ny) + 1][((k - 1) % ny) + 1]]

\* list_index with a default of 0 for a name that is not in the list.
list_index_default(list, name) ==
    IF \E i \in 1..Len(list) : list[i] = name
    THEN (CHOOSE i \in 1..Len(list) :
             list[i] = name /\ \A k \in 1..(i - 1) : list[k] # name) - 1
    ELSE 0

\* list.index: the 0-based position of the first equal entry, or -1 where
\* list.index raises ValueError (no entry is equal).
list_index(list, name) ==
    IF \E i \in 1..Len(list) : list[i] = name
    THEN (CHOOSE i \in 1..Len(list) :
             list[i] = name /\ \A k \in 1..(i - 1) : list[k] # name) - 1
    ELSE 0 - 1

(***************************************************************************)
(* The properties x, y, ha, hp of TPXO.                                    *)
(***************************************************************************)
\* The dataset handle is the opened path; every file holds the same axes.
x_axis(self_) == lon_z
y_axis(self_) == lat_z
ha(self_) == file_ha(self_.dataset)
hp(self_) == file_hp(self_.dataset)

(***************************************************************************)
(* scipy.interpolate.griddata(points, values, xi, method='nearest')        *)
(***************************************************************************)
\* broadcast_shape pairing the two arrays up to the shorter one.
broadcast_shape_zip(k, n) == IF k < n THEN k ELSE n

\* np.broadcast_arrays on two 1-D arrays of lengths k and n: the common
\* length, or -1 where the shapes do not broadcast.
broadcast_shape(k, n) ==
    IF k = n THEN n ELSE IF k = 1 THEN n ELSE IF n = 1 THEN k ELSE 0 - 1

\* Entry i of a 1-D array broadcast to a longer one.
broadcast_at(a, i) == IF Len(a) = 1 THEN a[1] ELSE a[i]

\* Squared Euclidean distance in (lon, lat).
dist2(ax, ay, bx, by) == (ax - bx) * (ax - bx) + (ay - by) * (ay - by)

\* The data point nearest to (qx, qy): its position in px, py. Equidistant
\* data points are told apart by the build's tie rule.
nearest(px, py, qx, qy, tie) ==
    LET d == <<>> \o [m \in 1..Len(px) |-> dist2(px[m], py[m], qx, qy)]
        dmin == np_min(d)
        best == {m \in 1..Len(px) : d[m] = dmin}
    IN  IF tie = "first"
        THEN CHOOSE m \in best : \A o \in best : m <= o
        ELSE CHOOSE m \in best : \A o \in best : m >= o

griddata(px, py, values, xi_x, xi_y, build) ==
    LET n == broadcast_shape(Len(xi_x), Len(xi_y))
    IN  IF n < 0
        THEN Raise("ValueError", "np.broadcast_arrays", None)
        ELSE IF Len(px) = 0
        THEN IF build.empty = "IndexError"
             THEN Raise("IndexError", "NearestNDInterpolator", None)
             ELSE Return([i \in 1..n |-> NaN])
        ELSE Return([i \in 1..n |-> Num(values[
                 nearest(px, py, broadcast_at(xi_x, i), broadcast_at(xi_y, i),
                         build.tie)])])

(***************************************************************************)
(* TPXO._get_interpolation                                                 *)
(***************************************************************************)
FullTurn == 360
Buffer == 2

\* _x: the longitudes below 0, each plus 360, in input order.
normalized_x(vertices_) ==
    LET neg == SelectSeq(vertices_, LAMBDA v : v[1] < 0)
    IN  [i \in 1..Len(neg) |-> neg[i][1] + FullTurn]

\* _y: every latitude, in input order.
column_y(vertices_) == [i \in 1..Len(vertices_) |-> vertices_[i][2]]

\* _idx: the flat positions (1-based, ascending) of the grid points inside
\* the box of _x, _y buffered by 2 difference units. v >= lo - 2 * dx is
\* compared as den * v >= den * lo - 2 * num for dx = num / den.
bbox_idx(x, y, qx, qy, dx, dy) ==
    LET xf == flat_x(x, y)
        yf == flat_y(x, y)
        x_lo == dx.den * np_min(qx) - Buffer * dx.num
        x_hi == dx.den * np_max(qx) + Buffer * dx.num
        y_lo == dy.den * np_min(qy) - Buffer * dy.num
        y_hi == dy.den * np_max(qy) + Buffer * dy.num
    IN  SelectSeq([k \in 1..Len(xf) |-> k], LAMBDA k :
            /\ dx.den * xf[k] >= x_lo
            /\ dx.den * xf[k] <= x_hi
            /\ dy.den * yf[k] >= y_lo
            /\ dy.den * yf[k] <= y_hi)

\* a[idx]; <<>> \o f is the sequence f, computed once.
take(a, idx) == <<>> \o [m \in 1..Len(idx) |-> a[idx[m]]]

get_interpolation(self_, tpxo_array, constituent_, vertices_, build) ==
    IF ~assert_vertices(vertices_)
    THEN [result |-> Raise("AssertionError", "_assert_vertices", None),
          frame |-> [NoFrame EXCEPT !.at = "_assert_vertices"]]
    ELSE IF list_index(self_.CONSTITUENTS, constituent_) < 0
    THEN [result |-> Raise("ValueError", "CONSTITUENTS.index", constituent_),
          frame |-> [NoFrame EXCEPT !.at = "CONSTITUENTS.index"]]
    ELSE
    LET c0 == list_index(self_.CONSTITUENTS, constituent_)
        array == flatten(tpxo_array, c0)
        x_ == normalized_x(vertices_)
        y_ == column_y(vertices_)
        x == x_axis(self_)
        y == y_axis(self_)
        dx == mean_diff(x)
        dy == mean_diff(y)
    IN  IF Len(x_) = 0
        THEN [result |-> Raise("ValueError", "np.min", None),
              frame |-> [at |-> "np.min", x_ |-> x_, y_ |-> y_, idx_ |-> <<>>]]
        ELSE
        LET idx_ == bbox_idx(x, y, x_, y_, dx, dy)
        IN  [result |-> griddata(take(flat_x(x, y), idx_),
                                 take(flat_y(x, y), idx_),
                                 take(array, idx_), x_, y_, build),
             frame |-> [at |-> "griddata", x_ |-> x_, y_ |-> y_,
                        idx_ |-> idx_]]

\* TPXO.get_amplitude and TPXO.get_phase.
get_amplitude(self_, constituent_, vertices_, build) ==
    IF ~assert_vertices(vertices_)
    THEN [result |-> Raise("AssertionError", "_assert_vertices", None),
          frame |-> NoFrame]
    ELSE get_interpolation(self_, ha(self_), constituent_, vertices_, build)

get_phase(self_, constituent_, vertices_, build) ==
    IF ~assert_vertices(vertices_)
    THEN [result |-> Raise("AssertionError", "_assert_vertices", None),
          frame |-> NoFrame]
    ELSE get_interpolation(self_, hp(self_), constituent_, vertices_, build)

(***************************************************************************)
(* The state machine.                                                      *)
(***************************************************************************)
Gets == {"get_amplitude", "get_phase"}

\* A TPXO object built from /data/a.nc, and a query drawn from the inputs.
Init ==
    /\ environ = None
    /\ files = AllPaths
    /\ tpxo_dataset_filename = "/data/a.nc"
    /\ constituent \in ConstituentInputs
    /\ vertices \in VertexInputs
    /\ scipy \in ScipyBuilds
    /\ self = TPXO_init(tpxo_dataset_filename, environ, files).self
    /\ op = "none"
    /\ result = NoResult
    /\ frame = NoFrame

\* No object yet: the constructor's argument, the environment variable and
\* the files on disk are drawn, the query is one node.
InitConstruct ==
    /\ environ \in Paths \cup {None}
    /\ files \in SUBSET AllPaths
    /\ tpxo_dataset_filename \in Paths \cup {None}
    /\ constituent = "M2"
    /\ vertices = << <<-150, 0>> >>
    /\ scipy \in ScipyBuilds
    /\ self = NoObject
    /\ op = "none"
    /\ result = NoResult
    /\ frame = NoFrame

\* self = TPXO(tpxo_dataset_filename); a constructor that raises leaves the
\* caller with the object it had.
Construct ==
    /\ LET r == TPXO_init(tpxo_dataset_filename, environ, files)
       IN  /\ self' = IF r.result.kind = "return" THEN r.self ELSE self
           /\ result' = r.result
    /\ op' = "__init__"
    /\ frame' = NoFrame
    /\ UNCHANGED <<environ, files, tpxo_dataset_filename, constituent,
                   vertices, scipy>>

\* self.get_amplitude(constituent, vertices)
GetAmplitude ==
    /\ self # NoObject
    /\ LET r == get_amplitude(self, constituent, vertices, scipy)
       IN  /\ result' = r.result
           /\ frame' = r.frame
    /\ op' = "get_amplitude"
    /\ UNCHANGED <<environ, files, tpxo_dataset_filename, constituent,
                   vertices, scipy, self>>

\* self.get_phase(constituent, vertices)
GetPhase ==
    /\ self # NoObject
    /\ LET r == get_phase(self, constituent, vertices, scipy)
       IN  /\ result' = r.result
           /\ frame' = r.frame
    /\ op' = "get_phase"
    /\ UNCHANGED <<environ, files, tpxo_dataset_filename, constituent,
                   vertices, scipy, self>>

Next == Construct \/ GetAmplitude \/ GetPhase

Spec == Init /\ [][Next]_vars

SpecConstruct == InitConstruct /\ [][Next]_vars

(***************************************************************************)
(* Vocabulary of the properties.                                           *)
(***************************************************************************)
\* The longitude normalization of the specification: every longitude below
\* 0 is moved by a full turn, every other longitude is kept.
Normalize(lon) == IF lon < 0 THEN lon + FullTurn ELSE lon
Normalized(v) == [i \in 1..Len(v) |-> <<Normalize(v[i][1]), v[i][2]>>]

Known == \E i \in 1..Len(CONSTITUENTS) : CONSTITUENTS[i] = constituent
Valid == \A i \in 1..Len(vertices) : Len(vertices[i]) = 2
HasNegative == \E i \in 1..Len(vertices) : vertices[i][1] < 0
HasNonNegative == \E i \in 1..Len(vertices) : vertices[i][1] >= 0

\* Every query point lies within the axes of the dataset.
InCoverage ==
    \A i \in 1..Len(vertices) :
        /\ Normalize(vertices[i][1]) >= 0
        /\ Normalize(vertices[i][1]) < FullTurn
        /\ vertices[i][2] >= np_min(lat_z)
        /\ vertices[i][2] <= np_max(lat_z)

\* The grid of the dataset, flattened, and the slice the last query read.
GridX == flat_x(lon_z, lat_z)
GridY == flat_y(lon_z, lat_z)
GridValues ==
    flatten(IF op = "get_amplitude" THEN ha(self) ELSE hp(self),
            list_index(CONSTITUENTS, constituent))

\* Flat position k is a nearest one to point pt among the positions in among.
IsNearest(k, pt, among) ==
    /\ k \in among
    /\ \A o \in among :
          dist2(GridX[k], GridY[k], Normalize(pt[1]), pt[2])
              <= dist2(GridX[o], GridY[o], Normalize(pt[1]), pt[2])

\* The candidate set of the specification: the grid points inside the box
\* of all normalized query points, padded by two mean spacings.
SpecCandidates(v) ==
    LET qx == [i \in 1..Len(v) |-> Normalize(v[i][1])]
        qy == [i \in 1..Len(v) |-> v[i][2]]
        dx == mean_diff(lon_z)
        dy == mean_diff(lat_z)
    IN  {k \in 1..Len(GridX) :
            /\ dx.den * GridX[k] >= dx.den * np_min(qx) - 2 * dx.num
            /\ dx.den * GridX[k] <= dx.den * np_max(qx) + 2 * dx.num
            /\ dy.den * GridY[k] >= dy.den * np_min(qy) - 2 * dy.num
            /\ dy.den * GridY[k] <= dy.den * np_max(qy) + 2 * dy.num}

FrameCandidates == {frame.idx_[m] : m \in 1..Len(frame.idx_)}

\* The path the constructor tried: the one it opened, or the one its error
\* names.
Attempted == IF result.kind = "return" THEN self.path ELSE result.msg

(***************************************************************************)
(* C1: for a catalog constituent and N >= 1 valid query points inside the  *)
(* dataset's coverage, whatever the signs of their longitudes, a query     *)
(* returns exactly N values and value i is the stored value of a grid      *)
(* point nearest to input point i.                                         *)
(***************************************************************************)
C1_OneValuePerPoint ==
    (op \in Gets /\ Known /\ Valid /\ InCoverage) =>
        /\ result.kind = "return"
        /\ Len(result.values) = Len(vertices)
        /\ \A i \in 1..Len(vertices) :
              \E k \in 1..Len(GridX) :
                  /\ IsNearest(k, vertices[i], 1..Len(GridX))
                  /\ result.values[i] = Num(GridValues[k])

(***************************************************************************)
(* C2: in a query that returned, for points inside the coverage, value i   *)
(* is the stored value of a candidate grid point at minimal Euclidean      *)
(* distance from point i's own (normalized longitude, latitude).           *)
(***************************************************************************)
C2_NearestToOwnPoint ==
    (op \in Gets /\ result.kind = "return" /\ InCoverage) =>
        \A i \in 1..Len(vertices) :
            \E k \in FrameCandidates :
                /\ IsNearest(k, vertices[i], FrameCandidates)
                /\ result.values[i] = Num(GridValues[k])

(***************************************************************************)
(* C3: a query gives the same outcome, from the same candidate grid        *)
(* points, as the query whose negative longitudes are each replaced by the *)
(* longitude + 360 (-150 by 210).                                          *)
(***************************************************************************)
C3_SameAsNormalizedQuery ==
    (op \in Gets /\ Known /\ Valid /\ InCoverage) =>
        LET r == IF op = "get_amplitude"
                 THEN get_amplitude(self, constituent, Normalized(vertices),
                                    scipy)
                 ELSE get_phase(self, constituent, Normalized(vertices),
                                scipy)
        IN  /\ result = r.result
            /\ frame.idx_ = r.frame.idx_

(***************************************************************************)
(* C4: a query with valid points and a constituent name that is not        *)
(* exactly one of the 15 catalog entries fails at the catalog lookup (the  *)
(* ValueError of CONSTITUENTS.index) and returns no values.                *)
(***************************************************************************)
C4_UnknownConstituentFails ==
    (op \in Gets /\ Valid /\ ~Known) =>
        /\ result.kind = "raise"
        /\ result.type = "ValueError"
        /\ result.site = "CONSTITUENTS.index"
        /\ result.values = <<>>

C4_Witness ==
    /\ op = "get_amplitude"
    /\ constituent = "m2"
    /\ Valid
    /\ HasNonNegative
    /\ result.kind = "raise"

(***************************************************************************)
(* C5: with no environment variable set, constructing with a path (the     *)
(* argument, or the default path) at which no dataset exists fails in the  *)
(* constructor with FileNotFoundError naming that path; a query never      *)
(* meets the missing file: the object it runs on holds an opened dataset.  *)
(***************************************************************************)
C5_FailsAtConstruction ==
    /\ (/\ op = "__init__"
        /\ environ = None
        /\ (IF tpxo_dataset_filename # None
            THEN tpxo_dataset_filename ELSE DEFAULT_PATH) \notin files)
       => /\ result.kind = "raise"
          /\ result.type = "FileNotFoundError"
          /\ result.msg = (IF tpxo_dataset_filename # None
                           THEN tpxo_dataset_filename ELSE DEFAULT_PATH)
    /\ op \in Gets =>
          /\ self.dataset \in files
          /\ result.type # "FileNotFoundError"

C5_Witness ==
    /\ op = "__init__"
    /\ environ = None
    /\ tpxo_dataset_filename \in Paths
    /\ tpxo_dataset_filename \notin files
    /\ result.kind = "raise"
    /\ result.msg = tpxo_dataset_filename

(***************************************************************************)
(* C6: a query whose padded bounding box holds no grid point fails with    *)
(* an explicit InterpolationError.                                         *)
(***************************************************************************)
C6_EmptyCandidatesRaise ==
    (op \in Gets /\ Known /\ Valid /\ SpecCandidates(vertices) = {}) =>
        /\ result.kind = "raise"
        /\ result.type = "InterpolationError"

(***************************************************************************)
(* C7: a query either fails, returning nothing, or returns exactly as many *)
(* values as it was given points.                                          *)
(***************************************************************************)
C7_NoPartialResults ==
    op \in Gets =>
        \/ result.kind = "raise" /\ result.values = <<>>
        \/ result.kind = "return" /\ Len(result.values) = Len(vertices)

C7_Witness ==
    /\ op \in Gets
    /\ Len(vertices) > 1
    /\ HasNegative
    /\ HasNonNegative
    /\ result.kind = "return"
    /\ Len(result.values) = Len(vertices)

(***************************************************************************)
(* C9: the candidate set a query interpolates from is exactly the set of   *)
(* grid points inside the box of ALL its query points (normalized          *)
(* longitudes, latitudes), padded by twice the mean axis spacing.          *)
(***************************************************************************)
C9_JointBoundingBox ==
    (op \in Gets /\ frame.at = "griddata") =>
        FrameCandidates = SpecCandidates(vertices)

(***************************************************************************)
(* C10: the constructor tries the argument where one is given, else the    *)
(* value of TPXO_NCFILE where it is set, else the default path.            *)
(***************************************************************************)
C10_ResolutionOrder ==
    op = "__init__" =>
        /\ tpxo_dataset_filename # None => Attempted = tpxo_dataset_filename
        /\ (tpxo_dataset_filename = None /\ environ # None) =>
              Attempted = environ
        /\ (tpxo_dataset_filename = None /\ environ = None) =>
              Attempted = DEFAULT_PATH

C10_Witness ==
    /\ op = "__init__"
    /\ tpxo_dataset_filename # None
    /\ environ # None
    /\ environ # tpxo_dataset_filename
    /\ result.kind = "return"
    /\ self.path = tpxo_dataset_filename

====
